---- MODULE Spec2Model ----
(***************************************************************************)
(* A model of GeographicLib's Geod command-line utility (Geod.cpp, kept    *)
(* as src/unnamed/part_000) and of the Geocentric class                    *)
(* (src/src/Geocentric.cpp).                                               *)
(*                                                                         *)
(* Angles are whole degrees.  The geodesic solver itself (Geodesic,        *)
(* GeodesicLine) and the DMS decoder are not among the source files; they  *)
(* are modelled from the specification, on the sphere (f = 0) and for the  *)
(* degenerate geodesics the specification singles out (s12 = 0, meridians, *)
(* the equator), where the arithmetic is exact: distances are then in      *)
(* units of one degree of arc.                                             *)
(***************************************************************************)
EXTENDS Integers, Sequences, FiniteSets, TLC

VARIABLES
  \* ---- Geod main (part_000) ----
  linecalc, inverse, full,      \* the mode and -f flags after argument parsing
  lat1, lon1, azi1,             \* main's locals (line 118)
  lat2, lon2, azi2, s12,
  l,                            \* the GeodesicLine l (line 159)
  geod,                         \* the solver object: its iteration counters
  pc,                           \* "loop" while reading lines, then "done"
  nlines,                       \* the number of lines standard input holds
  nread,                        \* the lines getline has returned so far
  bad,                          \* the newest line is a record to reject
  called,                       \* the solver was called for the newest line
  out,                          \* standard output: a line's number and kind
  lastOut,                      \* the fields of the newest output line
  retval,
  \* ---- a single call of a function of the library or the front end ----
  fn,                           \* the call made last: its arguments and result
  \* ---- callers sharing one solver object ----
  cpc, cin, cread,              \* each caller's position, query and read-back
  \* ---- one run of the inverse problem's iteration ----
  nw,                           \* its position, residual and geometry
  \* ---- the command line (lines 121-154) ----
  argc,                         \* the number of arguments after the program name
  argv                          \* the arguments the loop has read so far

geodVars == <<linecalc, inverse, full, lat1, lon1, azi1, lat2, lon2, azi2, s12,
              l, geod, pc, nlines, nread, bad, called, out, lastOut, retval>>

auxVars == <<fn, cpc, cin, cread, nw, argc, argv>>

vars == <<geodVars, auxVars>>

(***************************************************************************)
(* Bounds of the model.                                                    *)
(***************************************************************************)
MaxLines == 2     \* lines of standard input
MaxAzi == 400     \* azimuths read are within -MaxAzi..MaxAzi
MaxLon == 600     \* longitudes converted are within -MaxLon..MaxLon
MaxNum == 3       \* numerators of the radii and flattenings tried
MaxDen == 3       \* their denominators
MaxResidual == 12  \* the largest first residual of an inverse problem
MaxCallers == 2    \* the callers sharing one solver object
MaxArgs == 9       \* the longest command line

(***************************************************************************)
(* Angle arithmetic.                                                       *)
(***************************************************************************)
Abs(x) == IF x < 0 THEN -x ELSE x

\* x reduced modulo 360 into [-180, 180): the solver's longitude convention
LonNormalize(x) == ((x + 180) % 360) - 180

\* x reduced modulo 360 into (-180, 180]: the solver's azimuth convention
AziNormalize(x) == 180 - ((180 - x) % 360)

Congruent360(x, y) == (x - y) % 360 = 0

(***************************************************************************)
(* Input text.  A line of standard input is the sequence of its            *)
(* blank-separated tokens; a token is the sequence of its characters.      *)
(***************************************************************************)
\* the tokens the model's input lines are made of
LatToks == { <<"0">>, <<"9", "0">>, <<"9", "1">>, <<"x">> }
LonToks == { <<"2", "0", "0">>, <<"2", "0">>, <<"1", "0", "N">> }
AziToks == { <<"0">>, <<"1", "8", "0">>, <<"9", "0">>, <<"4", "5">>,
             <<"3", "6", "1">>, <<"0", "N">> }
S12Toks == { <<"0">>, <<"3", "0">>, <<"-", "1", "0", "0">>, <<"x">> }

\* the decimal text of an integer
DigitChar(d) ==
  CASE d = 0 -> "0" [] d = 1 -> "1" [] d = 2 -> "2" [] d = 3 -> "3"
    [] d = 4 -> "4" [] d = 5 -> "5" [] d = 6 -> "6" [] d = 7 -> "7"
    [] d = 8 -> "8" [] d = 9 -> "9"

RECURSIVE NatTok(_)
NatTok(n) ==
  IF n < 10 THEN <<DigitChar(n)>>
  ELSE Append(NatTok(n \div 10), DigitChar(n % 10))

IntTok(n) == IF n < 0 THEN <<"-">> \o NatTok(-n) ELSE NatTok(n)

\* the azimuths handed to ReadAzimuth on its own: the text and the angle it
\* denotes (E and W mark a longitude, N a latitude; "x" denotes nothing)
AziInputs ==
  { [tok |-> IntTok(n), val |-> n] : n \in -MaxAzi..MaxAzi }
  \cup { [tok |-> <<"9", "0", "E">>, val |-> 90],
         [tok |-> <<"1", "8", "0", "W">>, val |-> -180],
         [tok |-> <<"2", "0", "N">>, val |-> 20],
         [tok |-> <<"x">>, val |-> 0] }

\* the command-line arguments: the options, two values and a word
OptI == <<"-", "i">>
OptL == <<"-", "l">>
OptF == <<"-", "f">>
OptP == <<"-", "p">>
OptH == <<"-", "h">>
ArgToks == { OptI, OptL, OptF, OptP, OptH,
             <<"2", "0">>, <<"4", "5">>, <<"x">> }

AllToks == LatToks \cup LonToks \cup AziToks \cup S12Toks
           \cup { r.tok : r \in AziInputs } \cup ArgToks

IsDigit(c) == c \in {"0", "1", "2", "3", "4", "5", "6", "7", "8", "9"}

DigitVal(c) ==
  CASE c = "0" -> 0 [] c = "1" -> 1 [] c = "2" -> 2 [] c = "3" -> 3
    [] c = "4" -> 4 [] c = "5" -> 5 [] c = "6" -> 6 [] c = "7" -> 7
    [] c = "8" -> 8 [] c = "9" -> 9

RECURSIVE DigitsVal(_)
DigitsVal(t) ==
  IF t = <<>> THEN 0
  ELSE 10 * DigitsVal(SubSeq(t, 1, Len(t) - 1)) + DigitVal(t[Len(t)])

\* the length of the longest prefix of t made of digits
RECURSIVE DigitPrefix(_)
DigitPrefix(t) ==
  IF t = <<>> \/ ~IsDigit(t[1]) THEN 0 ELSE 1 + DigitPrefix(Tail(t))

\* the sign a leading "-" gives, and the token without its sign
SignOf(t) == IF t # <<>> /\ t[1] = "-" THEN -1 ELSE 1

Unsigned(t) == IF t # <<>> /\ t[1] \in {"-", "+"} THEN Tail(t) ELSE t

\* operator>>(istream&, double&) on one token: an optional sign and the
\* longest run of digits; it fails when there is no digit.
ReadDigits(sgn, body, n) ==
  IF n = 0 THEN [ok |-> FALSE, val |-> 0]
  ELSE [ok |-> TRUE, val |-> sgn * DigitsVal(SubSeq(body, 1, n))]

ReadUnsigned(sgn, body) == ReadDigits(sgn, body, DigitPrefix(body))

\* the extraction of every token of the model, computed once
ReadDoubleTab == [t \in AllToks |-> ReadUnsigned(SignOf(t), Unsigned(t))]

ReadDouble(t) == ReadDoubleTab[t]

\* DMS::Decode(s, ind): decimal degrees with an optional sign and an optional
\* trailing hemisphere letter (N, S: a latitude; E, W: a longitude; S and W
\* negate).  Anything else does not decode (std::out_of_range).
Hemisphere(t) ==
  IF t # <<>> /\ t[Len(t)] \in {"N", "S", "E", "W"} THEN t[Len(t)] ELSE "-"

DecodeDigits(h, sgn, body) ==
  [err |-> ~(body # <<>> /\ DigitPrefix(body) = Len(body)),
   val |-> IF body # <<>> /\ DigitPrefix(body) = Len(body)
           THEN sgn * (IF h \in {"S", "W"} THEN -1 ELSE 1) * DigitsVal(body)
           ELSE 0,
   ind |-> IF h \in {"N", "S"} THEN "LATITUDE"
           ELSE IF h \in {"E", "W"} THEN "LONGITUDE" ELSE "NONE"]

DecodeSigned(h, t1) == DecodeDigits(h, SignOf(t1), Unsigned(t1))

DecodeHemi(h, t) ==
  DecodeSigned(h, IF h = "-" THEN t ELSE SubSeq(t, 1, Len(t) - 1))

\* the decoding of every token of the model, computed once
DecodeTab == [t \in AllToks |-> DecodeHemi(Hemisphere(t), t)]

Decode(t) == DecodeTab[t]

\* DMS::DecodeLatLon(stra, strb, lat, lon): latitude first unless the
\* hemisphere letters say otherwise; a latitude outside [-90, 90] is an error.
LatLonChecked(failed, la, lo) ==
  IF failed \/ la < -90 \/ la > 90
  THEN [err |-> TRUE, lat |-> 0, lon |-> 0]
  ELSE [err |-> FALSE, lat |-> la, lon |-> lo]

LatLonOrdered(a, b, ia, ib) ==
  LatLonChecked(a.err \/ b.err \/ ia = ib,
                IF ia = "LATITUDE" THEN a.val ELSE b.val,
                IF ia = "LATITUDE" THEN b.val ELSE a.val)

LatLonOf(a, b) ==
  LatLonOrdered(a, b,
    IF a.ind # "NONE" THEN a.ind
    ELSE IF b.ind = "LATITUDE" THEN "LONGITUDE" ELSE "LATITUDE",
    IF b.ind # "NONE" THEN b.ind
    ELSE IF a.ind = "LONGITUDE" THEN "LATITUDE" ELSE "LONGITUDE")

DecodeLatLon(ta, tb) == LatLonOf(Decode(ta), Decode(tb))

\* ReadAzimuth (part_000 lines 102-113), on the decoded value and flag
AzimuthOf_OpenAt180(d) ==
  IF d.err \/ ~(d.val >= -180 /\ d.val <= 360) \/ d.ind = "LATITUDE"
  THEN [err |-> TRUE, azi |-> 0]
  ELSE [err |-> FALSE, azi |-> IF d.val > 180 THEN d.val - 360 ELSE d.val]

AzimuthOf(d) ==
  IF d.err THEN [err |-> TRUE, azi |-> 0]
  ELSE IF ~(d.val >= -180 /\ d.val <= 360) THEN [err |-> TRUE, azi |-> 0]
  ELSE IF d.ind = "LATITUDE" THEN [err |-> TRUE, azi |-> 0]
  ELSE [err |-> FALSE, azi |-> IF d.val >= 180 THEN d.val - 360 ELSE d.val]

ReadAzimuth(t) == AzimuthOf(Decode(t))

(***************************************************************************)
(* The geodesic solver on the sphere, for the geodesics whose arithmetic   *)
(* is exact in whole degrees: meridians (azimuth 0 or 180), the equator    *)
(* (latitude 0, azimuth 90 or -90) and, for any azimuth, s12 = 0.          *)
(***************************************************************************)
LineKind(lat, azi) ==
  IF azi \in {0, 180} THEN "meridian"
  ELSE IF lat = 0 /\ azi \in {90, -90} THEN "equator"
  ELSE "oblique"

\* Geodesic::Line / the GeodesicLine constructor: the base point and azimuth,
\* normalized, and the per-line snapshot: the arc-length offset sig1 of the
\* base point from the equator crossing of its great circle, and the
\* longitude lam1 of the base point relative to that crossing.
Line(la1, lo1, az1) ==
  LET az == AziNormalize(az1)
      k  == LineKind(la1, az)
  IN  [kind |-> k,
       lat1 |-> la1,
       lon1 |-> LonNormalize(lo1),
       azi1 |-> az,
       sig1 |-> IF k = "meridian" THEN (IF az = 0 THEN la1 ELSE 180 - la1)
                ELSE 0,
       lam1 |-> IF k = "meridian" /\ az = 180 THEN 180 ELSE 0]

\* the line a default-constructed GeodesicLine holds
NoLine == [kind |-> "none", lat1 |-> 0, lon1 |-> 0, azi1 |-> 0,
           sig1 |-> 0, lam1 |-> 0]

\* GeodesicLine::Position(s12, lat2, lon2, azi2): a function of the snapshot
\* and of s12; the line itself is not changed.
Position(ln, s) ==
  CASE s = 0 ->
         [lat2 |-> ln.lat1, lon2 |-> ln.lon1, azi2 |-> ln.azi1]
    [] s # 0 /\ ln.kind = "meridian" ->
         LET sig2  == AziNormalize(ln.sig1 + s)
             north == sig2 >= -90 /\ sig2 <= 90
             lam2  == IF north THEN 0 ELSE 180
         IN  [lat2 |-> IF north THEN sig2
                       ELSE IF sig2 > 0 THEN 180 - sig2 ELSE -180 - sig2,
              lon2 |-> LonNormalize(ln.lon1 + lam2 - ln.lam1),
              azi2 |-> IF north THEN 0 ELSE 180]
    [] s # 0 /\ ln.kind = "equator" ->
         [lat2 |-> 0,
          lon2 |-> LonNormalize(ln.lon1 + (IF ln.azi1 = 90 THEN s ELSE -s)),
          azi2 |-> ln.azi1]

\* Geodesic::Direct: the direct problem sets up the line and steps along it.
Direct(la1, lo1, az1, s) == Position(Line(la1, lo1, az1), s)

\* the queries the model's solver answers
InDomain(la1, az1, s) ==
  IF s = 0 THEN TRUE ELSE LineKind(la1, AziNormalize(az1)) # "oblique"

(***************************************************************************)
(* The Newton iteration of the inverse problem.  The residual of the       *)
(* longitude difference is a natural number; how it shrinks at each        *)
(* iteration depends on the geometry: quickly, slowly (near-antipodal      *)
(* points) or not at all.                                                  *)
(***************************************************************************)
maxit == 100   \* the cap on the iterations of one inverse problem
tol1 == 8      \* above it the iteration is in its coarse phase
tol0 == 0      \* the residual at or below which the iteration has converged

Rates == {"fast", "slow", "stall"}

NewtonStep(r, rate) ==
  CASE rate = "fast"  -> r \div 4
    [] rate = "slow"  -> IF r > 0 THEN r - 1 ELSE 0
    [] rate = "stall" -> r

\* one more iteration is made
NewtonUncapped(r, ia, ib) == r > tol0

NewtonContinues(r, ia, ib) == r > tol0 /\ ia + ib < maxit

\* the whole loop: the residual and the two iteration counts it ends with
RECURSIVE NewtonRun(_, _, _, _)
NewtonRun(r, rate, ia, ib) ==
  IF NewtonContinues(r, ia, ib)
  THEN IF r > tol1 THEN NewtonRun(NewtonStep(r, rate), rate, ia + 1, ib)
       ELSE NewtonRun(NewtonStep(r, rate), rate, ia, ib + 1)
  ELSE [r |-> r, itera |-> ia, iterb |-> ib]

\* Geodesic::Inverse on the sphere, for two points on one meridian circle or
\* both on the equator: these are solved without iteration.
InverseDomain(la1, lo1, la2, lo2) ==
  LET lon12 == LonNormalize(lo2 - lo1)
  IN  IF lon12 \in {0, -180} THEN TRUE ELSE la1 = 0 /\ la2 = 0

Inverse(la1, lo1, la2, lo2) ==
  LET lon12 == LonNormalize(lo2 - lo1)
      n     == NewtonRun(0, "fast", 0, 0)
      sol   ==
        CASE lon12 = 0 ->
               IF la2 >= la1 THEN [azi1 |-> 0, azi2 |-> 0, s12 |-> la2 - la1]
               ELSE [azi1 |-> 180, azi2 |-> 180, s12 |-> la1 - la2]
          [] lon12 = -180 ->
               IF la1 + la2 >= 0
               THEN [azi1 |-> 0, azi2 |-> 180, s12 |-> 180 - la1 - la2]
               ELSE [azi1 |-> 180, azi2 |-> 0, s12 |-> 180 + la1 + la2]
          [] lon12 \notin {0, -180} ->
               [azi1 |-> IF lon12 > 0 THEN 90 ELSE -90,
                azi2 |-> IF lon12 > 0 THEN 90 ELSE -90,
                s12  |-> Abs(lon12)]
  IN  [azi1 |-> sol.azi1, azi2 |-> sol.azi2, s12 |-> sol.s12,
       itera |-> n.itera, iterb |-> n.iterb]

(***************************************************************************)
(* Geod's main (part_000 lines 115-222).                                   *)
(***************************************************************************)
\* the lines of each mode: every record of the tokens above, and the
\* records with too few fields
ShortLines == { <<>>, <<<<"0">>>>, <<<<"0">>, <<"2", "0">>>>,
                <<<<"0">>, <<"2", "0">>, <<"0">>>> }
LineLines == { <<>> } \cup { <<ts>> : ts \in S12Toks }
InverseLines ==
  ShortLines \cup { <<ta, tb, tc, td>> : ta \in LatToks, tb \in LonToks,
                                        tc \in LatToks, td \in LonToks }
DirectLines ==
  ShortLines \cup { <<ta, tb, tc, ts>> : ta \in LatToks, tb \in LonToks,
                                        tc \in AziToks, ts \in S12Toks }

\* LatLonString and AzimuthString (lines 76-100): the quantities the string
\* holds, each a whole number of degrees printed in fixed notation
LatLonString(lat, lon) == <<lat, lon>>
AzimuthString(azi) == <<azi>>

\* what the try block of one loop iteration leaves behind: whether it threw,
\* main's locals, whether the solver was called, and the fields written
Outcome(e, a1, b1, c1, a2, b2, c2, s, g, wasCalled, fields) ==
  [err |-> e, lat1 |-> a1, lon1 |-> b1, azi1 |-> c1,
   lat2 |-> a2, lon2 |-> b2, azi2 |-> c2, s12 |-> s, geod |-> g,
   called |-> wasCalled, fields |-> fields]

Thrown(a1, b1, c1, s) ==
  Outcome(TRUE, a1, b1, c1, lat2, lon2, azi2, s, geod, FALSE, <<>>)

\* lines 172-183: line mode.  z is the value a failed extraction leaves in s12.
LineFields_NoS12(f, p, s) ==
  (IF f THEN LatLonString(lat1, lon1) \o AzimuthString(azi1) ELSE <<>>)
  \o LatLonString(p.lat2, p.lon2) \o AzimuthString(p.azi2)

LineFields(f, p, s) ==
  (IF f THEN LatLonString(lat1, lon1) \o AzimuthString(azi1) ELSE <<>>)
  \o LatLonString(p.lat2, p.lon2) \o AzimuthString(p.azi2)
  \o (IF f THEN <<s>> ELSE <<>>)

LineAnswer(p, s) ==
  Outcome(FALSE, lat1, lon1, azi1, p.lat2, p.lon2, p.azi2, s, geod, TRUE,
          LineFields(full, p, s))

\* a slip that would step on from the point last answered
LineQuery_FromLast(ln, s) ==
  LineAnswer(Position(Line(lat2, lon2, azi2), s), s)

LineQuery(ln, s) == LineAnswer(Position(ln, s), s)

LineParsed(d, z) ==
  IF ~d.ok THEN Thrown(lat1, lon1, azi1, z) ELSE LineQuery(l, d.val)

TryLine(t, z) ==
  IF Len(t) < 1 THEN Thrown(lat1, lon1, azi1, z)
  ELSE LineParsed(ReadDouble(t[1]), z)

\* lines 184-197: inverse mode
InverseFields(f, p1, p2, r) ==
  (IF f THEN LatLonString(p1.lat, p1.lon) ELSE <<>>)
  \o AzimuthString(r.azi1)
  \o (IF f THEN LatLonString(p2.lat, p2.lon) ELSE <<>>)
  \o AzimuthString(r.azi2) \o <<r.s12>>

InverseAnswer(p1, p2, r) ==
  Outcome(FALSE, p1.lat, p1.lon, r.azi1, p2.lat, p2.lon, r.azi2, r.s12,
          [itera |-> r.itera, iterb |-> r.iterb], TRUE,
          InverseFields(full, p1, p2, r))

InverseParsed(p1, p2) ==
  IF p1.err THEN Thrown(lat1, lon1, azi1, s12)
  ELSE IF p2.err THEN Thrown(p1.lat, p1.lon, azi1, s12)
  ELSE InverseAnswer(p1, p2, Inverse(p1.lat, p1.lon, p2.lat, p2.lon))

TryInverse(t) ==
  IF Len(t) < 4 THEN Thrown(lat1, lon1, azi1, s12)
  ELSE InverseParsed(DecodeLatLon(t[1], t[2]), DecodeLatLon(t[3], t[4]))

\* lines 198-213: direct mode
DirectFields(f, p1, c1, p, s) ==
  (IF f THEN LatLonString(p1.lat, p1.lon) \o AzimuthString(c1) ELSE <<>>)
  \o LatLonString(p.lat2, p.lon2) \o AzimuthString(p.azi2)
  \o (IF f THEN <<s>> ELSE <<>>)

DirectAnswer(p1, c1, s, p) ==
  Outcome(FALSE, p1.lat, p1.lon, c1, p.lat2, p.lon2, p.azi2, s, geod, TRUE,
          DirectFields(full, p1, c1, p, s))

\* a slip that would call the solver before the azimuth is validated
DirectParsed_SolveFirst(d, p1, a, z) ==
  IF ~d.ok THEN Thrown(lat1, lon1, azi1, z)
  ELSE IF p1.err THEN Thrown(lat1, lon1, azi1, d.val)
  ELSE IF a.err
    THEN Outcome(TRUE, p1.lat, p1.lon, azi1, lat2, lon2, azi2, d.val, geod,
                 TRUE, <<>>)
  ELSE DirectAnswer(p1, a.azi, d.val, Direct(p1.lat, p1.lon, a.azi, d.val))

\* a slip that would bind the solver's outputs in the wrong order
DirectParsed_Swapped(d, p1, a, z) ==
  IF ~d.ok THEN Thrown(lat1, lon1, azi1, z)
  ELSE IF p1.err THEN Thrown(lat1, lon1, azi1, d.val)
  ELSE IF a.err THEN Thrown(p1.lat, p1.lon, azi1, d.val)
  ELSE DirectAnswer(p1, a.azi, d.val,
         [lat2 |-> Direct(p1.lat, p1.lon, a.azi, d.val).lon2,
          lon2 |-> Direct(p1.lat, p1.lon, a.azi, d.val).lat2,
          azi2 |-> Direct(p1.lat, p1.lon, a.azi, d.val).azi2])

DirectParsed(d, p1, a, z) ==
  IF ~d.ok THEN Thrown(lat1, lon1, azi1, z)
  ELSE IF p1.err THEN Thrown(lat1, lon1, azi1, d.val)
  ELSE IF a.err THEN Thrown(p1.lat, p1.lon, azi1, d.val)
  ELSE DirectAnswer(p1, a.azi, d.val, Direct(p1.lat, p1.lon, a.azi, d.val))

TryDirect(t, z) ==
  IF Len(t) < 3 THEN Thrown(lat1, lon1, azi1, s12)
  ELSE IF Len(t) < 4 THEN Thrown(lat1, lon1, azi1, z)
  ELSE DirectParsed(ReadDouble(t[4]), DecodeLatLon(t[1], t[2]),
                    ReadAzimuth(t[3]), z)

\* the catch block (lines 215-219) answers line n on standard output
CatchOut_Silent(o, n) == o

CatchOut(o, n) == Append(o, [n |-> n, kind |-> "error"])

CatchRetval_Reset(e, rv) == IF e THEN 1 ELSE 0

\* line 218: the catch block sets the exit status, nothing else touches it
CatchRetval(e, rv) == IF e THEN 1 ELSE rv

\* the end of one loop iteration: the locals, the output line, the status.
\* isBad records that the line read is a record the front end must reject.
Commit(r, isBad) ==
  /\ lat1' = r.lat1 /\ lon1' = r.lon1 /\ azi1' = r.azi1
  /\ lat2' = r.lat2 /\ lon2' = r.lon2 /\ azi2' = r.azi2
  /\ s12' = r.s12
  /\ geod' = r.geod
  /\ called' = r.called
  /\ bad' = isBad
  /\ nread' = nread + 1
  /\ out' = IF r.err THEN CatchOut(out, nread + 1)
            ELSE Append(out, [n |-> nread + 1, kind |-> "result"])
  /\ lastOut' = IF r.err THEN [kind |-> "error", fields |-> <<>>]
                ELSE [kind |-> "result", fields |-> r.fields]
  /\ retval' = CatchRetval(r.err, retval)
  /\ UNCHANGED <<linecalc, inverse, full, l, pc, nlines, auxVars>>

\* the records the front end must reject: too few fields, a latitude and
\* longitude that do not decode, an azimuth outside [-180, 360]
AzimuthOutside(d) == d.err \/ d.val < -180 \/ d.val > 360

LineBad(t) == Len(t) < 1

InverseBad(t) ==
  IF Len(t) < 4 THEN TRUE
  ELSE IF DecodeLatLon(t[1], t[2]).err THEN TRUE
  ELSE DecodeLatLon(t[3], t[4]).err

DirectBad(t) ==
  IF Len(t) < 4 THEN TRUE
  ELSE IF DecodeLatLon(t[1], t[2]).err THEN TRUE
  ELSE AzimuthOutside(Decode(t[3]))

\* the records the model's solver answers (every rejected record is kept)
LineAnswerableOf(d) ==
  IF d.ok THEN (IF l.kind = "oblique" THEN d.val = 0 ELSE TRUE) ELSE TRUE

LineAnswerable(t) ==
  IF Len(t) < 1 THEN TRUE ELSE LineAnswerableOf(ReadDouble(t[1]))

InverseAnswerableOf(p1, p2) ==
  IF ~p1.err /\ ~p2.err
  THEN InverseDomain(p1.lat, p1.lon, p2.lat, p2.lon) ELSE TRUE

InverseAnswerable(t) ==
  IF Len(t) < 4 THEN TRUE
  ELSE InverseAnswerableOf(DecodeLatLon(t[1], t[2]),
                           DecodeLatLon(t[3], t[4]))

DirectAnswerableOf(d, p1, a) ==
  IF d.ok /\ ~p1.err /\ ~a.err THEN InDomain(p1.lat, a.azi, d.val) ELSE TRUE

DirectAnswerable(t) ==
  IF Len(t) < 4 THEN TRUE
  ELSE DirectAnswerableOf(ReadDouble(t[4]), DecodeLatLon(t[1], t[2]),
                          ReadAzimuth(t[3]))

\* the lines on which the extraction of s12 is attempted and fails: what it
\* leaves in s12 is the old value or 0, by the version of the C++ library
LineExtractFails(t) == IF Len(t) < 1 THEN TRUE ELSE ~ReadDouble(t[1]).ok

DirectExtractFails(t) ==
  IF Len(t) < 4 THEN Len(t) = 3 ELSE ~ReadDouble(t[4]).ok

\* one iteration of the loop at line 169, in each of the three modes
StepLine ==
  /\ pc = "loop" /\ nread < nlines /\ linecalc
  /\ \E t \in LineLines, z \in {s12, 0} :
       /\ IF z = s12 THEN TRUE ELSE LineExtractFails(t)
       /\ LineAnswerable(t)
       /\ Commit(TryLine(t, z), LineBad(t))

StepInverse ==
  /\ pc = "loop" /\ nread < nlines /\ ~linecalc /\ inverse
  /\ \E t \in InverseLines :
       InverseAnswerable(t) /\ Commit(TryInverse(t), InverseBad(t))

StepDirect ==
  /\ pc = "loop" /\ nread < nlines /\ ~linecalc /\ ~inverse
  /\ \E t \in DirectLines, z \in {s12, 0} :
       /\ IF z = s12 THEN TRUE ELSE DirectExtractFails(t)
       /\ DirectAnswerable(t)
       /\ Commit(TryDirect(t, z), DirectBad(t))

\* getline fails at the end of the input: the loop ends, main returns retval
Eof ==
  /\ pc = "loop" /\ nread = nlines
  /\ pc' = "done"
  /\ UNCHANGED <<linecalc, inverse, full, lat1, lon1, azi1, lat2, lon2, azi2,
                 s12, l, geod, nlines, nread, bad, called, out, lastOut,
                 retval, auxVars>>

\* the parts of the state that a specification leaves alone
AuxIdle ==
  /\ fn = [op |-> "none"]
  /\ cpc = <<>> /\ cin = <<>> /\ cread = <<>>
  /\ nw = [pc |-> "idle"]
  /\ argc = 0 /\ argv = <<>>

GeodIdle ==
  /\ linecalc = FALSE /\ inverse = FALSE /\ full = FALSE
  /\ lat1 = 0 /\ lon1 = 0 /\ azi1 = 0
  /\ lat2 = 0 /\ lon2 = 0 /\ azi2 = 0 /\ s12 = 0
  /\ l = NoLine
  /\ geod = [itera |-> 0, iterb |-> 0]
  /\ pc = "off" /\ nlines = 0 /\ nread = 0
  /\ bad = FALSE /\ called = FALSE
  /\ out = <<>>
  /\ lastOut = [kind |-> "none", fields |-> <<>>]
  /\ retval = 0

\* the state at line 168: the arguments are parsed, and in line mode
\* (-l lat1 lon1 azi1) the line is built from them (lines 131-134, 159-161)
LineOfArgs(la, lo, az) == Line(la, lo, az)

Init ==
  /\ \E m \in {"direct", "line", "inverse"} :
       /\ linecalc = (m = "line")
       /\ inverse = (m = "inverse")
       /\ IF m = "line"
          THEN \E ta \in LatToks, tb \in LonToks, tc \in AziToks :
                 /\ ~DecodeLatLon(ta, tb).err
                 /\ ~ReadAzimuth(tc).err
                 /\ lat1 = DecodeLatLon(ta, tb).lat
                 /\ lon1 = DecodeLatLon(ta, tb).lon
                 /\ azi1 = ReadAzimuth(tc).azi
                 /\ l = LineOfArgs(lat1, lon1, azi1)
          ELSE lat1 = 0 /\ lon1 = 0 /\ azi1 = 0 /\ l = NoLine
  /\ full \in BOOLEAN
  /\ lat2 = 0 /\ lon2 = 0 /\ azi2 = 0 /\ s12 = 0
  /\ geod = [itera |-> 0, iterb |-> 0]
  /\ pc = "loop"
  /\ nlines \in 0..MaxLines
  /\ nread = 0
  /\ bad = FALSE
  /\ called = FALSE
  /\ out = <<>>
  /\ lastOut = [kind |-> "none", fields |-> <<>>]
  /\ retval = 0
  /\ AuxIdle

Next == StepLine \/ StepInverse \/ StepDirect \/ Eof

Spec == Init /\ [][Next]_vars

(***************************************************************************)
(* The command line (lines 121-154).  argv holds the arguments the loop    *)
(* has read, so the argument it looks at next is number Len(argv) + 1 of   *)
(* argc; -n and -d, which change neither the mode nor the base point, are  *)
(* not among the arguments.                                                *)
(***************************************************************************)
ArgRest == <<lat2, lon2, azi2, s12, geod, nlines, nread, bad, called, out,
             lastOut, fn, cpc, cin, cread, nw, argc>>

InverseSelected_KeepLine(lc, inv) == [linecalc |-> lc, inverse |-> TRUE]

\* lines 124-125
InverseSelected(lc, inv) == [linecalc |-> FALSE, inverse |-> TRUE]

\* lines 127-128
LineSelected(lc, inv) == [linecalc |-> TRUE, inverse |-> FALSE]

\* usage(retval) returns from main with that status
Usage(rv) == pc' = "usage" /\ retval' = rv

ArgInverse ==
  /\ pc = "args" /\ Len(argv) < argc
  /\ argv' = Append(argv, OptI)
  /\ linecalc' = InverseSelected(linecalc, inverse).linecalc
  /\ inverse' = InverseSelected(linecalc, inverse).inverse
  /\ UNCHANGED <<full, lat1, lon1, azi1, l, pc, retval, ArgRest>>

\* lines 130-140: the base point of the line from the next three arguments
LineArgsRead(p, a) ==
  /\ lat1' = IF p.err THEN lat1 ELSE p.lat
  /\ lon1' = IF p.err THEN lon1 ELSE p.lon
  /\ azi1' = IF p.err THEN azi1 ELSE IF a.err THEN azi1 ELSE a.azi
  /\ IF p.err THEN Usage(1) ELSE IF a.err THEN Usage(1)
     ELSE UNCHANGED <<pc, retval>>

ArgLine ==
  /\ pc = "args" /\ Len(argv) < argc
  /\ linecalc' = LineSelected(linecalc, inverse).linecalc
  /\ inverse' = LineSelected(linecalc, inverse).inverse
  /\ IF Len(argv) + 3 >= argc
     THEN /\ argv' = Append(argv, OptL)
          /\ Usage(1)
          /\ UNCHANGED <<lat1, lon1, azi1>>
     ELSE \E ta \in ArgToks, tb \in ArgToks, tc \in ArgToks :
            /\ argv' = argv \o <<OptL, ta, tb, tc>>
            /\ LineArgsRead(DecodeLatLon(ta, tb), ReadAzimuth(tc))
  /\ UNCHANGED <<full, l, ArgRest>>

ArgFull ==
  /\ pc = "args" /\ Len(argv) < argc
  /\ argv' = Append(argv, OptF)
  /\ full' = TRUE
  /\ UNCHANGED <<linecalc, inverse, lat1, lon1, azi1, l, pc, retval, ArgRest>>

\* lines 147-151: -p and the precision after it
ArgPrec ==
  /\ pc = "args" /\ Len(argv) < argc
  /\ IF Len(argv) + 1 = argc
     THEN argv' = Append(argv, OptP) /\ Usage(1)
     ELSE \E t \in ArgToks :
            /\ argv' = argv \o <<OptP, t>>
            /\ IF ReadDouble(t).ok THEN UNCHANGED <<pc, retval>>
               ELSE Usage(1)
  /\ UNCHANGED <<linecalc, inverse, full, lat1, lon1, azi1, l, ArgRest>>

\* lines 152-153: -h, and anything that is no option
ArgOther ==
  /\ pc = "args" /\ Len(argv) < argc
  /\ \E t \in ArgToks \ {OptI, OptL, OptF, OptP} :
       /\ argv' = Append(argv, t)
       /\ Usage(IF t = OptH THEN 0 ELSE 1)
  /\ UNCHANGED <<linecalc, inverse, full, lat1, lon1, azi1, l, ArgRest>>

\* lines 156-161: the arguments are read, the line is built in line mode
ArgsDone ==
  /\ pc = "args" /\ Len(argv) = argc
  /\ pc' = "parsed"
  /\ l' = IF linecalc THEN LineOfArgs(lat1, lon1, azi1) ELSE l
  /\ UNCHANGED <<linecalc, inverse, full, lat1, lon1, azi1, retval, argv,
                 ArgRest>>

InitArgs ==
  /\ linecalc = FALSE /\ inverse = FALSE /\ full = FALSE
  /\ lat1 = 0 /\ lon1 = 0 /\ azi1 = 0
  /\ lat2 = 0 /\ lon2 = 0 /\ azi2 = 0 /\ s12 = 0
  /\ l = NoLine
  /\ geod = [itera |-> 0, iterb |-> 0]
  /\ pc = "args" /\ nlines = 0 /\ nread = 0
  /\ bad = FALSE /\ called = FALSE
  /\ out = <<>>
  /\ lastOut = [kind |-> "none", fields |-> <<>>]
  /\ retval = 0
  /\ fn = [op |-> "none"]
  /\ cpc = <<>> /\ cin = <<>> /\ cread = <<>>
  /\ nw = [pc |-> "idle"]
  /\ argc \in 0..MaxArgs
  /\ argv = <<>>

NextArgs ==
  ArgInverse \/ ArgLine \/ ArgFull \/ ArgPrec \/ ArgOther \/ ArgsDone

SpecArgs == InitArgs /\ [][NextArgs]_vars

(***************************************************************************)
(* Geocentric (src/src/Geocentric.cpp).  A real is not-a-number, an        *)
(* infinity or a fraction n/d; comparisons with not-a-number are false.    *)
(***************************************************************************)
RNaN == [k |-> "nan", s |-> 0, n |-> 0, d |-> 1]
RInf(sg) == [k |-> "inf", s |-> sg, n |-> 0, d |-> 1]
RFin(n, d) == [k |-> "fin", s |-> 0, n |-> n, d |-> d]

Reals ==
  {RNaN, RInf(1), RInf(-1)}
  \cup { RFin(n, d) : n \in -MaxNum..MaxNum, d \in 1..MaxDen }

RIsFinite(x) == x.k = "fin"                      \* Math::isfinite
RLe(x, c) ==                                     \* x <= c
  CASE x.k = "fin" -> x.n <= c * x.d [] x.k = "inf" -> x.s < 0
    [] x.k = "nan" -> FALSE
RLt(x, c) ==                                     \* x < c
  CASE x.k = "fin" -> x.n < c * x.d [] x.k = "inf" -> x.s < 0
    [] x.k = "nan" -> FALSE
RGt(x, c) ==                                     \* x > c
  CASE x.k = "fin" -> x.n > c * x.d [] x.k = "inf" -> x.s > 0
    [] x.k = "nan" -> FALSE
RRecip(x) ==                                     \* 1 / x
  CASE x.k = "nan" -> RNaN
    [] x.k = "inf" -> RFin(0, 1)
    [] x.k = "fin" /\ x.n = 0 -> RInf(1)
    [] x.k = "fin" /\ x.n > 0 -> RFin(x.d, x.n)
    [] x.k = "fin" /\ x.n < 0 -> RFin(-x.d, -x.n)
RMul(x, y) == RFin(x.n * y.n, x.d * y.d)         \* of two fractions
RSubFrom(c, x) == RFin(c * x.d - x.n, x.d)       \* c - x, x a fraction

\* line 23: _f(f <= 1 ? f : 1/f)
CtorF_AsGiven(f) == f

CtorF(f) == IF RLe(f, 1) THEN f ELSE RRecip(f)

\* lines 22-34: the members, and the two checks of the constructor's body
GeocentricOf(a, f) ==
  IF ~(RIsFinite(a) /\ RGt(a, 0))
  THEN [ok |-> FALSE, what |-> "Major radius is not positive"]
  ELSE IF ~(RIsFinite(f) /\ RLt(f, 1))
  THEN [ok |-> FALSE, what |-> "Minor radius is not positive"]
  ELSE [ok |-> TRUE, what |-> "",
        a |-> a,
        f |-> f,
        e2 |-> RMul(f, RSubFrom(2, f)),
        e2m |-> RMul(RSubFrom(1, f), RSubFrom(1, f)),
        e2a |-> RFin(Abs(RMul(f, RSubFrom(2, f)).n),
                     RMul(f, RSubFrom(2, f)).d),
        e4a |-> RMul(RMul(f, RSubFrom(2, f)), RMul(f, RSubFrom(2, f))),
        maxrad |-> [twice |-> RFin(2 * a.n, a.d), over |-> "epsilon"]]

Geocentric(a, f) == GeocentricOf(a, CtorF(f))

\* line 42: the longitude IntForward goes on with
ForwardLon_Closed(lon) ==
  IF lon > 180 THEN lon - 360 ELSE IF lon < -180 THEN lon + 360 ELSE lon

ForwardLon(lon) ==
  IF lon >= 180 THEN lon - 360 ELSE IF lon < -180 THEN lon + 360 ELSE lon

\* lines 39-57: x, y and z are products of n + h with the sines and cosines
\* of the angles below, of which those at the poles, at longitude -180 and
\* at longitudes 90 and -90 are replaced by an exact 0.
IntForwardAt(lat, lon) ==
  [lat |-> lat, lon |-> lon,
   cphi0 |-> Abs(lat) = 90, slam0 |-> lon = -180, clam0 |-> Abs(lon) = 90]

IntForward(lat, lon) == IntForwardAt(lat, ForwardLon(lon))

(***************************************************************************)
(* One call of ReadAzimuth, of Geocentric::Geocentric or of                *)
(* Geocentric::IntForward, on arguments drawn from the bounded sets.       *)
(***************************************************************************)
CallReadAzimuth ==
  /\ fn.op = "none"
  /\ \E r \in AziInputs :
       fn' = [op |-> "ReadAzimuth", tok |-> r.tok, val |-> r.val,
              res |-> ReadAzimuth(r.tok)]
  /\ UNCHANGED <<geodVars, cpc, cin, cread, nw, argc, argv>>

CallGeocentric ==
  /\ fn.op = "none"
  /\ \E a \in Reals, f \in Reals :
       fn' = [op |-> "Geocentric", a |-> a, f |-> f, res |-> Geocentric(a, f)]
  /\ UNCHANGED <<geodVars, cpc, cin, cread, nw, argc, argv>>

CallIntForward ==
  /\ fn.op = "none"
  /\ \E lat \in {-90, 0, 45, 90}, lon \in -MaxLon..MaxLon :
       fn' = [op |-> "IntForward", lat |-> lat, lon |-> lon,
              res |-> IntForward(lat, lon)]
  /\ UNCHANGED <<geodVars, cpc, cin, cread, nw, argc, argv>>

(***************************************************************************)
(* Geocentric::IntReverse at the origin, x = y = z = 0, where R = 0 and    *)
(* h = 0.  zz and xx of lines 148-149 are kept as their squares, and the   *)
(* latitude atan2(zz / H, xx / H) is read off which of the two is zero.    *)
(***************************************************************************)
RZero == RFin(0, 1)
RAdd(x, y) == RFin(x.n * y.d + y.n * x.d, x.d * y.d)   \* of two fractions
RSub(x, y) == RFin(x.n * y.d - y.n * x.d, x.d * y.d)
RDiv(x, y) == RMul(x, RRecip(y))                       \* y > 0

NoLatitude == [nan |-> TRUE, lat |-> 0]                \* 0/0
Latitude(deg) == [nan |-> FALSE, lat |-> deg]

\* lines 150-158: lat = atan2(sphi, cphi), sphi = zz / H, cphi = xx / H
LatOfSquares(zz2, xx2) ==
  CASE zz2.n = 0 /\ xx2.n = 0 -> NoLatitude
    [] zz2.n > 0 /\ xx2.n = 0 -> Latitude(90)
    [] zz2.n = 0 /\ xx2.n > 0 -> Latitude(0)

\* lines 147-149: zz and xx in the limit e4 * q == 0 && r <= 0
LimitLat(g, pp) ==
  LatOfSquares(RDiv(IF RLt(g.f, 0) THEN pp ELSE RSub(g.e4a, pp), g.e2m),
               IF RLt(g.f, 0) THEN RSub(g.e4a, pp) ELSE pp)

\* line 97: the test that sends a point to the general formulas
GeneralCase(g, pp, q) ==
  ~(RMul(g.e4a, q).n = 0 /\ RLe(RSub(RAdd(pp, q), g.e4a), 0))

\* lines 62-158 with R = 0, h = 0, p = q = 0 (swapped or not)
IntReverseOrigin(g) ==
  CASE RLt(g.maxrad.twice, 0) -> NoLatitude            \* h > _maxrad
    [] ~RLt(g.maxrad.twice, 0) /\ g.e4a.n = 0 -> Latitude(90)
    [] ~RLt(g.maxrad.twice, 0) /\ g.e4a.n # 0
         /\ ~GeneralCase(g, RZero, RZero) -> LimitLat(g, RZero)

CallIntReverse ==
  /\ fn.op = "none"
  /\ \E a \in Reals, f \in Reals :
       /\ Geocentric(a, f).ok
       /\ fn' = [op |-> "IntReverse", a |-> a, f |-> f,
                 x |-> 0, y |-> 0, z |-> 0,
                 earth |-> Geocentric(a, f),
                 res |-> IntReverseOrigin(Geocentric(a, f))]
  /\ UNCHANGED <<geodVars, cpc, cin, cread, nw, argc, argv>>

InitFn == GeodIdle /\ AuxIdle

NextFn ==
  CallReadAzimuth \/ CallGeocentric \/ CallIntForward \/ CallIntReverse

SpecFn == InitFn /\ [][NextFn]_vars

(***************************************************************************)
(* The Newton iteration of Geodesic::Inverse, one iteration per step.  The *)
(* residual of the longitude difference is a natural number that each      *)
(* iteration divides by four, lowers by one, or leaves as it is.  The      *)
(* counters are the members itera and iterb of the solver object, the ones *)
(* main prints at line 191.                                                *)
(***************************************************************************)
NewtonResult(r) == IF r <= tol0 THEN "converged" ELSE "best"

NewtonBegin ==
  /\ nw.pc = "idle"
  /\ \E r0 \in 0..MaxResidual, rate \in Rates :
       nw' = [pc |-> "iter", r0 |-> r0, r |-> r0, rate |-> rate,
              res |-> "none"]
  /\ geod' = [itera |-> 0, iterb |-> 0]
  /\ UNCHANGED <<linecalc, inverse, full, lat1, lon1, azi1, lat2, lon2, azi2,
                 s12, l, pc, nlines, nread, bad, called, out, lastOut, retval,
                 fn, cpc, cin, cread, argc, argv>>

NewtonIterate ==
  /\ nw.pc = "iter"
  /\ NewtonContinues(nw.r, geod.itera, geod.iterb)
  /\ geod' = IF nw.r > tol1 THEN [geod EXCEPT !.itera = @ + 1]
             ELSE [geod EXCEPT !.iterb = @ + 1]
  /\ nw' = [nw EXCEPT !.r = NewtonStep(nw.r, nw.rate)]
  /\ UNCHANGED <<linecalc, inverse, full, lat1, lon1, azi1, lat2, lon2, azi2,
                 s12, l, pc, nlines, nread, bad, called, out, lastOut, retval,
                 fn, cpc, cin, cread, argc, argv>>

NewtonReturn ==
  /\ nw.pc = "iter"
  /\ ~NewtonContinues(nw.r, geod.itera, geod.iterb)
  /\ nw' = [nw EXCEPT !.pc = "done", !.res = NewtonResult(nw.r)]
  /\ UNCHANGED <<geodVars, fn, cpc, cin, cread, argc, argv>>

InitNewton == GeodIdle /\ AuxIdle

NextNewton == NewtonBegin \/ NewtonIterate \/ NewtonReturn

SpecNewton == InitNewton /\ [][NextNewton]_vars

(***************************************************************************)
(* Several callers of Inverse on one solver object.  Inverse leaves its    *)
(* iteration counts in the object (line 190) and the caller reads them     *)
(* back from it, one after the other (line 191).                           *)
(***************************************************************************)
Callers == 1..MaxCallers

Queries == {[r |-> 0, rate |-> "fast"],
            [r |-> MaxResidual, rate |-> "fast"],
            [r |-> MaxResidual, rate |-> "stall"]}

NoQuery == [r |-> 0, rate |-> "none"]

NoCounts == [itera |-> 0, iterb |-> 0]

\* the iteration counts Inverse ends with on query q
IterationCounts(ran) == [itera |-> ran.itera, iterb |-> ran.iterb]

CountsOf(q) == IterationCounts(NewtonRun(q.r, q.rate, 0, 0))

\* what Inverse leaves in the solver object
InverseStores(g, q) == CountsOf(q)

CallInverse(c) ==
  /\ cpc[c] = "idle"
  /\ \E q \in Queries :
       /\ cin' = [cin EXCEPT ![c] = q]
       /\ geod' = InverseStores(geod, q)
  /\ cpc' = [cpc EXCEPT ![c] = "called"]
  /\ UNCHANGED <<linecalc, inverse, full, lat1, lon1, azi1, lat2, lon2, azi2,
                 s12, l, pc, nlines, nread, bad, called, out, lastOut, retval,
                 fn, cread, nw, argc, argv>>

ReadItera(c) ==
  /\ cpc[c] = "called"
  /\ cread' = [cread EXCEPT ![c].itera = geod.itera]
  /\ cpc' = [cpc EXCEPT ![c] = "half"]
  /\ UNCHANGED <<geodVars, fn, cin, nw, argc, argv>>

ReadIterb(c) ==
  /\ cpc[c] = "half"
  /\ cread' = [cread EXCEPT ![c].iterb = geod.iterb]
  /\ cpc' = [cpc EXCEPT ![c] = "read"]
  /\ UNCHANGED <<geodVars, fn, cin, nw, argc, argv>>

InitConc ==
  /\ GeodIdle
  /\ fn = [op |-> "none"]
  /\ nw = [pc |-> "idle"]
  /\ argc = 0 /\ argv = <<>>
  /\ cpc = [c \in Callers |-> "idle"]
  /\ cin = [c \in Callers |-> NoQuery]
  /\ cread = [c \in Callers |-> NoCounts]

NextConc ==
  \E c \in Callers : CallInverse(c) \/ ReadItera(c) \/ ReadIterb(c)

SpecConc == InitConc /\ [][NextConc]_vars

(***************************************************************************)
(* The constructor and the two normalizations.                             *)
(***************************************************************************)
NonFinite(x) == x.k # "fin"
AtMostZero(x) == x.k = "fin" /\ x.n <= 0
AtLeastOne(x) == x.k = "fin" /\ x.n >= x.d
ExactlyOne(x) == x.k = "fin" /\ x.n = x.d

\* C2 as stated: the construction fails exactly when a is non-finite or
\* a <= 0 or f is non-finite or f >= 1.
C2_Original ==
  fn.op = "Geocentric"
    => (~fn.res.ok <=> \/ NonFinite(fn.a) \/ AtMostZero(fn.a)
                       \/ NonFinite(fn.f) \/ AtLeastOne(fn.f))

\* C2, amended: the construction fails exactly when a is non-finite or
\* a <= 0, or f is not-a-number, minus infinity or exactly 1; a flattening
\* above 1, plus infinity included, is replaced by its reciprocal.
C2_CtorDomain ==
  fn.op = "Geocentric"
    => /\ ~fn.res.ok <=> \/ NonFinite(fn.a) \/ AtMostZero(fn.a)
                         \/ fn.f = RNaN \/ fn.f = RInf(-1)
                         \/ ExactlyOne(fn.f)
       /\ (fn.res.ok /\ RGt(fn.f, 1)) => fn.res.f = RRecip(fn.f)

C2_Witness ==
  /\ fn.op = "Geocentric" /\ fn.res.ok
  /\ fn.f = RFin(3, 1) /\ fn.res.f = RFin(1, 3)

\* C7 as stated: whatever the longitude, IntForward goes on with a value
\* congruent to it modulo 360 and within [-180, 180).
C7_Original ==
  fn.op = "IntForward"
    => /\ Congruent360(fn.res.lon, fn.lon)
       /\ -180 <= fn.res.lon /\ fn.res.lon < 180

\* C7, amended: the value is congruent to the longitude modulo 360, and it
\* is within [-180, 180) exactly when the longitude is within [-540, 540).
C7_LonNormalized ==
  fn.op = "IntForward"
    => /\ Congruent360(fn.res.lon, fn.lon)
       /\ (-540 <= fn.lon /\ fn.lon < 540)
            <=> (-180 <= fn.res.lon /\ fn.res.lon < 180)

C7_Witness ==
  fn.op = "IntForward" /\ fn.lon = 180 /\ fn.res.lon = -180 /\ fn.res.slam0

\* C8 as stated: an accepted azimuth is returned congruent to the input
\* modulo 360 and within (-180, 180].
C8_Original ==
  (fn.op = "ReadAzimuth" /\ ~fn.res.err)
    => /\ Congruent360(fn.res.azi, fn.val)
       /\ -180 < fn.res.azi /\ fn.res.azi <= 180

\* C8, amended: an accepted azimuth is returned congruent to the input
\* modulo 360 and within [-180, 180).
C8_AziNormalized ==
  (fn.op = "ReadAzimuth" /\ ~fn.res.err)
    => /\ Congruent360(fn.res.azi, fn.val)
       /\ -180 <= fn.res.azi /\ fn.res.azi < 180

C8_Witness ==
  fn.op = "ReadAzimuth" /\ ~fn.res.err /\ fn.val = 180 /\ fn.res.azi = -180

\* C13 as stated: IntReverse maps the origin to latitude +90 on the sphere
\* and on every valid ellipsoid that is not a sphere.
C13_Original ==
  fn.op = "IntReverse" => (~fn.res.nan /\ fn.res.lat = 90)

(***************************************************************************)
(* The batch loop.                                                         *)
(***************************************************************************)
\* C1: every line read has produced exactly one line of standard output, in
\* input order, a result or an ERROR line; and the loop ends only at the end
\* of the input, so no error keeps a later line from being answered.
C1_OneLinePerInput ==
  /\ Len(out) = nread
  /\ \A i \in 1..Len(out) :
       out[i].n = i /\ out[i].kind \in {"result", "error"}
  /\ pc = "done" => nread = nlines /\ Len(out) = nlines

C1_Witness ==
  /\ pc = "done" /\ Len(out) = 2
  /\ out[1].kind = "error" /\ out[2].kind = "result"

\* C5: a record with too few fields, with a latitude/longitude that does not
\* decode or with an azimuth outside [-180, 360] is answered by an error
\* raised before the solver is called, and no field of a result is written.
C5_RejectedAtEntry ==
  bad => (lastOut.kind = "error" /\ lastOut.fields = <<>> /\ ~called)

C5_Witness ==
  /\ bad /\ nread = 2 /\ ~linecalc /\ ~inverse
  /\ out[1].kind = "result" /\ lastOut.kind = "error"

C10_OutputFields ==
  lastOut.kind = "result"
    => lastOut.fields =
         IF full THEN <<lat1, lon1, azi1, lat2, lon2, azi2, s12>>
         ELSE IF inverse THEN <<azi1, azi2, s12>>
         ELSE <<lat2, lon2, azi2>>

C10_Witness ==
  /\ lastOut.kind = "result" /\ full /\ inverse
  /\ Len(lastOut.fields) = 7 /\ s12 > 0 /\ nread = 2

\* C11: the exit status is 1 exactly when some line read so far was answered
\* by an ERROR line, 0 otherwise, the empty input included; so a later
\* result never brings it back to 0, and main returns it at the end.
C11_ExitStatus ==
  /\ retval = IF \E i \in 1..Len(out) : out[i].kind = "error" THEN 1 ELSE 0
  /\ (pc = "done" /\ nlines = 0) => retval = 0

C11_Witness ==
  /\ pc = "done" /\ retval = 1 /\ Len(out) = 2
  /\ out[1].kind = "error" /\ out[2].kind = "result"
  /\ lastOut.kind = "result"

(***************************************************************************)
(* The command line.                                                       *)
(***************************************************************************)
\* the place of the last argument equal to t, 0 if there is none
LastArg(t) ==
  CHOOSE i \in 0..Len(argv) :
    /\ i = 0 \/ argv[i] = t
    /\ \A j \in (i + 1)..Len(argv) : argv[j] # t

\* C12: line mode and inverse mode are never both selected; while the
\* arguments are accepted the later of -l and -i decides the mode, neither
\* means direct mode, and in line mode lat1, lon1 and azi1 are the three
\* arguments after the last -l, from which the line is built.
C12_ModeSelection ==
  /\ ~(linecalc /\ inverse)
  /\ pc \in {"args", "parsed"}
       => /\ linecalc <=> LastArg(OptL) > LastArg(OptI)
          /\ inverse <=> LastArg(OptI) > LastArg(OptL)
          /\ linecalc
               => /\ lat1 = DecodeLatLon(argv[LastArg(OptL) + 1],
                                         argv[LastArg(OptL) + 2]).lat
                  /\ lon1 = DecodeLatLon(argv[LastArg(OptL) + 1],
                                         argv[LastArg(OptL) + 2]).lon
                  /\ azi1 = ReadAzimuth(argv[LastArg(OptL) + 3]).azi
  /\ (pc = "parsed" /\ linecalc) => l = Line(lat1, lon1, azi1)

C12_Witness ==
  /\ pc = "parsed" /\ linecalc /\ ~inverse
  /\ argv = <<OptI, OptL, <<"2", "0">>, <<"4", "5">>, <<"4", "5">>,
              OptL, <<"4", "5">>, <<"2", "0">>, <<"2", "0">>>>
  /\ lat1 = 45 /\ lon1 = 20 /\ azi1 = 20

(***************************************************************************)
(* The solver object shared by several callers, and the iteration cap.     *)
(***************************************************************************)
\* C3 as stated: under every interleaving the iteration counts a caller
\* reads back after its Inverse are those of its own query.
C3_Original ==
  \A c \in DOMAIN cpc : cpc[c] = "read" => cread[c] = CountsOf(cin[c])

\* C4: the iterations of one inverse problem never exceed the cap, and the
\* iteration returns a result, converged or the best estimate after the
\* cap, never an error; it is the result of the loop run to its end.
C4_IterationCapped ==
  IF nw.pc = "idle" THEN TRUE
  ELSE /\ geod.itera + geod.iterb <= maxit
       /\ nw.pc = "done"
            => /\ nw.res \in {"converged", "best"}
               /\ nw.res = "best"
                    <=> (nw.r > tol0 /\ geod.itera + geod.iterb = maxit)
               /\ [r |-> nw.r, itera |-> geod.itera, iterb |-> geod.iterb]
                    = NewtonRun(nw.r0, nw.rate, 0, 0)

C4_Witness ==
  /\ nw.pc = "done" /\ nw.res = "best"
  /\ nw.r > tol0 /\ geod.itera + geod.iterb = maxit

====
